---- MODULE Spec2Model ----
(***************************************************************************)
(* A model of src/bip.py: the script derives, from a BIP39 mnemonic, the   *)
(* master extended keys, then for each of BIP44/49/84/86 the account keys  *)
(* of account 0 and the first `count` external addresses.                  *)
(*                                                                         *)
(* The key tree is built by the bip_utils calls the script makes.  Hashes  *)
(* and curve arithmetic are symbolic: a key is the term (seed, path) that  *)
(* determines it, a fingerprint is the term of the key it was taken from.  *)
(* A 32-bit child number is kept as its high bit (hardened) and its low    *)
(* 31 bits (index).                                                        *)
(***************************************************************************)
EXTENDS Integers, Sequences, FiniteSets, TLC

VARIABLES
    pc,          \* position in main()
    args,        \* the parsed command line (lines 56-61)
    unlucky,     \* the derivation paths (at most one) whose HMAC output is no valid key
    seed_bytes,  \* line 64
    coins,       \* bip44_coin .. bip86_coin (lines 67-80), by purpose
    hrp,         \* lines 74, 80
    masters,     \* bip44_mst .. bip86_mst (lines 83-86), by purpose
    coin_type,   \* line 100
    accounts,    \* the dict of lines 101-106, in insertion order
    cur,         \* position of the loop of line 108 in accounts
    acct,        \* derive_account_info: line 37
    ext_chain,   \* derive_account_info: line 44
    todo,        \* derive_account_info: what range(count) has still to yield
    children,    \* derive_account_info: line 46
    addr_ctx,    \* derive_account_info: line 48, the last one derived
    output,      \* what has been printed
    error,       \* the exception that ended the run, or "none"
    swallowed    \* exceptions caught by the handler of line 94

vars == <<pc, args, unlucky, seed_bytes, coins, hrp, masters, coin_type, accounts,
          cur, acct, ext_chain, todo, children, addr_ctx, output, error, swallowed>>

----------------------------------------------------------------------------
(* Bounds of the model *)

MaxCount == 3

\* The largest count of the runs whose indices are derived in any order.
MaxParCount == 2

Counts == (0 - 1) .. MaxCount

----------------------------------------------------------------------------
(* bip_utils, as far as the script uses it *)

Purposes == {44, 49, 84, 86}

Mnemonics == {"abandon_x11_about", "not a mnemonic"}

Passphrases == {"", "TREZOR"}

ValidMnemonic(m) == m = "abandon_x11_about"

NoValue == [none |-> TRUE]

Bip39SeedGenerator(mnemonic, passphrase) == [mnemonic |-> mnemonic, passphrase |-> passphrase]

Harden(index) == [hardened |-> TRUE, index |-> index]

Normal(index) == [hardened |-> FALSE, index |-> index]

CoinIndex(coin) == IF coin = "BITCOIN_TESTNET" THEN 1 ELSE 0

CoinHrp(coin) == IF coin = "BITCOIN_TESTNET" THEN "tb" ELSE "bc"

ScriptOf(cls) ==
    CASE cls = 44 -> "P2PKH"
      [] cls = 49 -> "P2SH-P2WPKH"
      [] cls = 84 -> "P2WPKH"
      [] cls = 86 -> "P2TR"

KeyNetVersion(cls, coin) ==
    IF coin = "BITCOIN_TESTNET"
    THEN CASE cls = 44 -> "t" [] cls = 49 -> "u" [] cls = 84 -> "v" [] cls = 86 -> "t"
    ELSE CASE cls = 44 -> "x" [] cls = 49 -> "y" [] cls = 84 -> "z" [] cls = 86 -> "x"

ZeroFingerprint == [zero |-> TRUE]

ToPublic(key) == [pub_of |-> key.key]

Fingerprint(key) == [hash160 |-> ToPublic(key)]

MasterKey(seed) ==
    [depth |-> 0, parent_fingerprint |-> ZeroFingerprint, child_number |-> Normal(0),
     chain_code |-> [IR |-> seed, path |-> <<>>],
     key |-> [IL |-> seed, path |-> <<>>]]

CkdValid(parent, cn) == Append(parent.key.path, cn) \notin unlucky

CKDpriv(parent, cn) ==
    [depth |-> parent.depth + 1,
     parent_fingerprint |-> Fingerprint(parent),
     child_number |-> cn,
     chain_code |-> [IR |-> parent.chain_code.IR, path |-> Append(parent.key.path, cn)],
     key |-> [IL |-> parent.key.IL, path |-> Append(parent.key.path, cn)]]

FromSeed(cls, seed, coin) == [cls |-> cls, coin |-> coin, key |-> MasterKey(seed)]

ChildObj(obj, cn) == [obj EXCEPT !.key = CKDpriv(obj.key, cn)]

Purpose(obj) == ChildObj(obj, Harden(obj.cls))

Coin(obj) == ChildObj(obj, Harden(CoinIndex(obj.coin)))

Account(obj, account_idx) == ChildObj(obj, Harden(account_idx))

CHAIN_EXT == 0

Change(obj, chg) == ChildObj(obj, Normal(chg))

AddressIndex(obj, i) == ChildObj(obj, Normal(i))

ToExtended(obj, class) ==
    [version |-> <<KeyNetVersion(obj.cls, obj.coin), class>>,
     depth |-> obj.key.depth,
     parent_fingerprint |-> obj.key.parent_fingerprint,
     child_number |-> obj.key.child_number,
     chain_code |-> obj.key.chain_code,
     key_data |-> IF class = "prv" THEN obj.key.key ELSE ToPublic(obj.key)]

RawCompressedHex(obj) == [hex |-> ToPublic(obj.key)]

ToAddress(obj) ==
    [script |-> ScriptOf(obj.cls), hrp |-> CoinHrp(obj.coin), payload |-> ToPublic(obj.key)]

----------------------------------------------------------------------------
(* derive_account_info (lines 30-53) *)

derive_acct(bip_obj, account_idx) == Account(Coin(Purpose(bip_obj)), account_idx)

\* Whether the derivations of lines 37 and 44 all yield a valid key; bip_utils
\* raises on the first that does not.
derive_acct_valid(bip_obj, account_idx) ==
    /\ CkdValid(bip_obj.key, Harden(bip_obj.cls))
    /\ CkdValid(Purpose(bip_obj).key, Harden(CoinIndex(bip_obj.coin)))
    /\ CkdValid(Coin(Purpose(bip_obj)).key, Harden(account_idx))
    /\ CkdValid(derive_acct(bip_obj, account_idx).key, Normal(CHAIN_EXT))

\* A variant that forgets the change level.
derive_ext_chain_skipped(acct_obj) == acct_obj

derive_ext_chain(acct_obj) == Change(acct_obj, CHAIN_EXT)

\* The body of the loop of lines 47-51 for index i.
\* A variant whose address index is off by one.
address_ctx_off_by_one(chain, i) == AddressIndex(chain, i + 1)

address_ctx(chain, i) == AddressIndex(chain, i)

\* A variant that numbers a child by the length of the shared list, not by i.
address_body_len(chain, i) ==
    <<Len(children), RawCompressedHex(address_ctx(chain, i)), ToAddress(address_ctx(chain, i))>>

address_body(chain, i) ==
    <<i, RawCompressedHex(address_ctx(chain, i)), ToAddress(address_ctx(chain, i))>>

\* range(count): the indices the loop of line 47 visits.
range(count) == 0 .. (count - 1)

Min(S) == CHOOSE x \in S : \A y \in S : x <= y

----------------------------------------------------------------------------
(* main (lines 55-117) *)

FatalKinds ==
    {"InvalidSeedLength", "InvalidKeyMaterial", "HardenedDerivationRequiresPrivateKey",
     "InvalidChecksum", "InvalidLength", "UnknownVersionBytes", "InvalidTweak",
     "PointAtInfinity"}

\* `except Exception` (line 94) catches every kind; the calls of lines 92-93 are
\* taken to raise one of these: a fatal kind, the recoverable kind, and the kind of
\* a bip_utils version without the method (the comment of line 95).
Exceptions == {"InvalidKeyMaterial", "InvalidChildKey", "AttributeError"}

Line(kind, label, value) == [kind |-> kind, label |-> label, value |-> value]

\* The paths a run derives, and the empty path of the master key.
RunPaths(testnet, count) ==
    LET c == IF testnet THEN 1 ELSE 0
        acc(p) == <<Harden(p), Harden(c), Harden(0)>>
    IN  {<<>>}
        \cup {SubSeq(acc(p), 1, n) : p \in Purposes, n \in 1..3}
        \cup {Append(acc(p), Normal(CHAIN_EXT)) : p \in Purposes}
        \cup {acc(p) \o <<Normal(CHAIN_EXT), Normal(i)>> : p \in Purposes, i \in range(count)}

Init ==
    /\ pc = "seed"
    /\ args \in [mnemonic : Mnemonics, passphrase : Passphrases,
                 count : Counts, testnet : BOOLEAN]
    /\ unlucky \in {{}} \cup {{p} : p \in RunPaths(args.testnet, args.count)}
    /\ seed_bytes = NoValue
    /\ coins = NoValue
    /\ hrp = ""
    /\ masters = NoValue
    /\ coin_type = 0 - 1
    /\ accounts = <<>>
    /\ cur = 0
    /\ acct = NoValue
    /\ ext_chain = NoValue
    /\ todo = {}
    /\ children = <<>>
    /\ addr_ctx = NoValue
    /\ output = <<>>
    /\ error = "none"
    /\ swallowed = {}

Raise(e) ==
    /\ pc' = "failed"
    /\ error' = e

\* line 64
main_seed ==
    /\ pc = "seed"
    /\ IF ValidMnemonic(args.mnemonic)
       THEN /\ seed_bytes' = Bip39SeedGenerator(args.mnemonic, args.passphrase)
            /\ pc' = "coins"
            /\ UNCHANGED error
       ELSE /\ Raise("ValueError")
            /\ UNCHANGED seed_bytes
    /\ UNCHANGED <<args, unlucky, coins, hrp, masters, coin_type, accounts, cur, acct,
                   ext_chain, todo, children, addr_ctx, output, swallowed>>

\* lines 67-80
\* A variant whose testnet branch leaves one purpose on the mainnet coin.
choose_coins_mixed(testnet) ==
    IF testnet
    THEN [p \in Purposes |-> IF p = 86 THEN "BITCOIN" ELSE "BITCOIN_TESTNET"]
    ELSE [p \in Purposes |-> "BITCOIN"]

choose_coins(testnet) ==
    IF testnet
    THEN [p \in Purposes |-> "BITCOIN_TESTNET"]
    ELSE [p \in Purposes |-> "BITCOIN"]

choose_hrp(testnet) == IF testnet THEN "tb" ELSE "bc"

main_coins ==
    /\ pc = "coins"
    /\ coins' = choose_coins(args.testnet)
    /\ hrp' = choose_hrp(args.testnet)
    /\ pc' = "masters"
    /\ UNCHANGED <<args, unlucky, seed_bytes, masters, coin_type, accounts, cur, acct,
                   ext_chain, todo, children, addr_ctx, output, error, swallowed>>

\* lines 83-86
main_masters ==
    /\ pc = "masters"
    /\ IF <<>> \notin unlucky
       THEN /\ masters' = [p \in Purposes |-> FromSeed(p, seed_bytes, coins[p])]
            /\ pc' = "print_master"
            /\ UNCHANGED error
       ELSE /\ Raise("InvalidKeyMaterial")
            /\ UNCHANGED masters
    /\ UNCHANGED <<args, unlucky, seed_bytes, coins, hrp, coin_type, accounts, cur, acct,
                   ext_chain, todo, children, addr_ctx, output, swallowed>>

master_lines ==
    <<Line("text", "MASTER XPRV:", ToExtended(masters[44], "prv")),
      Line("text", "MASTER XPUB:", ToExtended(masters[44], "pub"))>>

\* lines 90-96: the calls of lines 92 and 93 either return or raise; `printed` is
\* the number of the two lines printed before the exception.
main_print_master ==
    /\ pc = "print_master"
    /\ \/ /\ output' = output \o <<Line("header", "MASTER (BIP32)", NoValue)>> \o master_lines
          /\ UNCHANGED swallowed
       \/ \E e \in Exceptions, printed \in 0..1 :
            /\ output' = output \o <<Line("header", "MASTER (BIP32)", NoValue)>>
                           \o SubSeq(master_lines, 1, printed)
                           \o <<Line("text", "MASTER (no ToExtended available)", NoValue)>>
            /\ swallowed' = swallowed \cup {e}
    /\ pc' = "accounts"
    /\ UNCHANGED <<args, unlucky, seed_bytes, coins, hrp, masters, coin_type, accounts, cur,
                   acct, ext_chain, todo, children, addr_ctx, error>>

\* lines 100-106
main_coin_type(testnet) == IF testnet THEN 1 ELSE 0

Label(bip, ct, script) == [bip |-> bip, coin_type |-> ct, account |-> 0, script |-> script]

\* A variant that pairs two labels with each other's object.
main_accounts_dict_swapped(ct, msts) ==
    <<[label |-> Label(44, ct, "P2PKH"), bip_obj |-> msts[44]],
      [label |-> Label(49, ct, "P2SH-P2WPKH"), bip_obj |-> msts[84]],
      [label |-> Label(84, ct, "P2WPKH"), bip_obj |-> msts[49]],
      [label |-> Label(86, ct, "P2TR"), bip_obj |-> msts[86]]>>

main_accounts_dict(ct, msts) ==
    <<[label |-> Label(44, ct, "P2PKH"), bip_obj |-> msts[44]],
      [label |-> Label(49, ct, "P2SH-P2WPKH"), bip_obj |-> msts[49]],
      [label |-> Label(84, ct, "P2WPKH"), bip_obj |-> msts[84]],
      [label |-> Label(86, ct, "P2TR"), bip_obj |-> msts[86]]>>

main_accounts ==
    /\ pc = "accounts"
    /\ coin_type' = main_coin_type(args.testnet)
    /\ accounts' = main_accounts_dict(coin_type', masters)
    /\ cur' = 1
    /\ pc' = "for_account"
    /\ UNCHANGED <<args, unlucky, seed_bytes, coins, hrp, masters, acct, ext_chain, todo,
                   children, addr_ctx, output, error, swallowed>>

\* account_idx=0 of line 110
ACCOUNT_IDX == 0

\* lines 108-110 and 37-46: the label is printed, then derive_account_info runs up
\* to its loop.
main_account_enter ==
    /\ pc = "for_account"
    /\ cur <= Len(accounts)
    /\ output' = Append(output, Line("header", accounts[cur].label, NoValue))
    /\ IF derive_acct_valid(accounts[cur].bip_obj, ACCOUNT_IDX)
       THEN /\ acct' = derive_acct(accounts[cur].bip_obj, ACCOUNT_IDX)
            /\ ext_chain' = derive_ext_chain(acct')
            /\ children' = <<>>
            /\ todo' = range(args.count)
            /\ pc' = "for_index"
            /\ UNCHANGED error
       ELSE /\ Raise("InvalidChildKey")
            /\ UNCHANGED <<acct, ext_chain, children, todo>>
    /\ addr_ctx' = NoValue
    /\ UNCHANGED <<args, unlucky, seed_bytes, coins, hrp, masters, coin_type, accounts, cur,
                   swallowed>>

\* lines 47-51 for index i
address_step(i) ==
    /\ pc = "for_index"
    /\ i \in todo
    /\ IF CkdValid(ext_chain.key, Normal(i))
       THEN /\ addr_ctx' = address_ctx(ext_chain, i)
            /\ children' = Append(children, address_body(ext_chain, i))
            /\ todo' = todo \ {i}
            /\ UNCHANGED <<pc, error>>
       ELSE /\ Raise("InvalidChildKey")
            /\ UNCHANGED <<addr_ctx, children, todo>>
    /\ UNCHANGED <<args, unlucky, seed_bytes, coins, hrp, masters, coin_type, accounts, cur,
                   acct, ext_chain, output, swallowed>>

\* The loop of line 47 visits range(count) in ascending order.
derive_next == todo # {} /\ address_step(Min(todo))

\* lines 53 and 111-115
acct_lines ==
    <<Line("text", "Account xprv:", ToExtended(acct, "prv")),
      Line("text", "Account xpub:", ToExtended(acct, "pub")),
      Line("text", "First external children", [count |-> args.count]),
      Line("children", accounts[cur].label, children)>>

main_account_return ==
    /\ pc = "for_index"
    /\ todo = {}
    /\ output' = output \o acct_lines
    /\ cur' = cur + 1
    /\ pc' = "for_account"
    /\ UNCHANGED <<args, unlucky, seed_bytes, coins, hrp, masters, coin_type, accounts,
                   acct, ext_chain, todo, children, addr_ctx, error, swallowed>>

\* line 117
main_done ==
    /\ pc = "for_account"
    /\ cur > Len(accounts)
    /\ output' = Append(output, Line("text", "Done.", NoValue))
    /\ pc' = "done"
    /\ UNCHANGED <<args, unlucky, seed_bytes, coins, hrp, masters, coin_type, accounts, cur,
                   acct, ext_chain, todo, children, addr_ctx, error, swallowed>>

Next ==
    \/ main_seed
    \/ main_coins
    \/ main_masters
    \/ main_print_master
    \/ main_accounts
    \/ main_account_enter
    \/ derive_next
    \/ main_account_return
    \/ main_done

Spec == Init /\ [][Next]_vars

\* The loop body of lines 48-51 run for the indices of range(count) in any order,
\* one index at a time: the schedule of workers that share ext_chain.
derive_any == \E i \in todo : address_step(i)

NextPar ==
    \/ main_seed
    \/ main_coins
    \/ main_masters
    \/ main_print_master
    \/ main_accounts
    \/ main_account_enter
    \/ derive_any
    \/ main_account_return
    \/ main_done

InitPar ==
    /\ Init
    /\ ValidMnemonic(args.mnemonic)
    /\ args.passphrase = ""
    /\ args.count <= MaxParCount
    /\ \A p \in unlucky : Len(p) = 5

ParSpec == InitPar /\ [][NextPar]_vars

----------------------------------------------------------------------------
(* Properties *)

RECURSIVE PathKey(_, _)
\* CKDpriv applied from `key` along `path`.
PathKey(key, path) ==
    IF path = <<>> THEN key ELSE PathKey(CKDpriv(key, Head(path)), Tail(path))

\* m / p' / c' / a' / 0 / i
AddressPath(p, c, a, i) == <<Harden(p), Harden(c), Harden(a), Normal(0), Normal(i)>>

\* The loop of line 47 is over: derive_account_info is about to return (line 53).
Returning == pc = "for_index" /\ todo = {}

\* The children lists printed so far and the one being built, each with the label
\* it belongs to.
ChildrenLists ==
    {[label |-> output[n].label, children |-> output[n].value] :
        n \in {m \in 1..Len(output) : output[m].kind = "children"}}
    \cup (IF pc = "for_index"
          THEN {[label |-> accounts[cur].label, children |-> children]}
          ELSE {})

\* C1: when derive_account_info returns for a count N >= 0, it returns exactly N
\* children, in ascending index order 0..N-1, and child i carries the public key and
\* address of the key CKDpriv yields from the master key along
\* m / p' / c' / a' / 0 / i (three hardened levels, change 0 and index i normal).
C1_ChildrenFollowPath ==
    (Returning /\ args.count >= 0) =>
        LET obj == accounts[cur].bip_obj
            k(i) == PathKey(MasterKey(seed_bytes),
                            AddressPath(obj.cls, CoinIndex(obj.coin), ACCOUNT_IDX, i))
        IN  /\ Len(children) = args.count
            /\ \A n \in 1..Len(children) :
                 /\ children[n][1] = n - 1
                 /\ children[n][2] = [hex |-> ToPublic(k(n - 1))]
                 /\ children[n][3].payload = ToPublic(k(n - 1))

C1_Witness == Returning /\ Len(children) >= 2 /\ cur = Len(accounts)

\* C5 (as claimed): an exception of a fatal kind raised by a library call ends the
\* run as a failure; it is never caught and replaced by a printed message.
C5_FatalErrorsSurfaced == (swallowed \cap FatalKinds # {}) => pc = "failed"

\* C6 (as claimed): InvalidChildKey is never surfaced as a failure of the run, and
\* the derivation of the first N address keys completes with N children.
C6_InvalidChildKeyRetried ==
    /\ error # "InvalidChildKey"
    /\ (Returning /\ args.count >= 0) => Len(children) = args.count

C7_KeyOk(key) ==
    LET path == key.key.path
    IN  /\ key.depth = Len(path)
        /\ IF path = <<>>
           THEN /\ key.parent_fingerprint = ZeroFingerprint
                /\ key.child_number = Normal(0)
           ELSE /\ key.child_number = path[Len(path)]
                /\ key.parent_fingerprint =
                     Fingerprint(PathKey(MasterKey(seed_bytes), SubSeq(path, 1, Len(path) - 1)))

C8_ScriptFor(p) ==
    CASE p = 44 -> "P2PKH"
      [] p = 49 -> "P2SH-P2WPKH"
      [] p = 84 -> "P2WPKH"
      [] p = 86 -> "P2TR"

\* C8: every address listed under a label is derived under the purpose the label
\* names and encoded with that purpose's script type (44 P2PKH, 49 P2SH-P2WPKH,
\* 84 P2WPKH, 86 P2TR), which is also the script type the label names.
C8_PurposeMatchesScript ==
    \A l \in ChildrenLists : \A j \in 1..Len(l.children) :
        LET addr == l.children[j][3]
        IN  /\ addr.payload.pub_of.path[1] = Harden(l.label.bip)
            /\ addr.script = C8_ScriptFor(l.label.bip)
            /\ l.label.script = addr.script

C8_Witness ==
    \E l \in ChildrenLists : l.label.bip = 86 /\ Len(l.children) >= 1

C10_UniformNetwork ==
    LET coin == IF args.testnet THEN "BITCOIN_TESTNET" ELSE "BITCOIN"
        ct == IF args.testnet THEN 1 ELSE 0
        h == IF args.testnet THEN "tb" ELSE "bc"
    IN  /\ (coins # NoValue) => (hrp = h /\ \A p \in Purposes : coins[p] = coin)
        /\ \A n \in 1..Len(accounts) :
             /\ accounts[n].label.coin_type = ct
             /\ accounts[n].bip_obj.coin = coin
        /\ \A l \in ChildrenLists : \A j \in 1..Len(l.children) :
             /\ l.children[j][3].hrp = h
             /\ l.children[j][3].payload.pub_of.path[2] = Harden(l.label.coin_type)
             /\ l.label.coin_type = ct

C10_Witness ==
    /\ args.testnet
    /\ \E l \in ChildrenLists : l.label.bip = 84 /\ Len(l.children) >= 1

====
